---- MODULE Spec2Model ----
(***************************************************************************)
(* Model of the two-stage pipeline simulator: DataGenerator (producer),    *)
(* BlockingQueue (channel), FilterThreshold (consumer) and main            *)
(* (coordinator).  Real-valued quantities (kernel weights, filtered value, *)
(* threshold TV) are carried scaled by 100 as integers; for the sample     *)
(* values used here (multiples of 20) every product and partial sum of the *)
(* double-precision loop is an exactly representable number, so the scaled *)
(* integers are the values the code computes.                              *)
(***************************************************************************)
EXTENDS Integers, Sequences, FiniteSets, TLC

(***************************************************************************)
(* Bounds of the model.                                                    *)
(***************************************************************************)
MaxLines == 4
MaxRandomPairs == 5
MaxLiveLines == 1
MaxPushes == 3
MaxPolls == 1
MaxObserves == 1
MaxCycles == 2

(***************************************************************************)
(* Program constants.                                                      *)
(***************************************************************************)
WINDOW_SIZE == 9
\* variant: the subject is one place nearer the head
PAST_ELEMENTS_three == (WINDOW_SIZE - 1) \div 2 - 1

PAST_ELEMENTS == 4
FUTURE_ELEMENTS == 4
\* variant: the weights scaled to sum to 1
FILTER_WINDOW_normalised == <<4, 8, 12, 16, 20, 16, 12, 8, 4>>

FILTER_WINDOW == <<5, 10, 15, 20, 25, 20, 15, 10, 5>>

(***************************************************************************)
(* Inputs.                                                                 *)
(***************************************************************************)
IntCell(n) == [valid |-> TRUE, value |-> n]
BadCell == [valid |-> FALSE, value |-> 0]
Lines ==
    { <<IntCell(100), IntCell(0), IntCell(0)>>,
      <<IntCell(0), IntCell(100), IntCell(100)>>,
      <<IntCell(356), BadCell>>,
      << >> }
Files == UNION { [1..n -> Lines] : n \in 0..MaxLines }
Ms == {0, 2}
TVs == {5000, 11000, 127500}
Bytes == {0, 100}
Pairs == {<<0, 100>>, <<100, 0>>}
Ts == {100, 500}
WorkTimes == {0, 200, 500, 800}

(***************************************************************************)
(* Threads that call the operations of a BlockingQueue: one calling push,  *)
(* two calling pop, one calling try_pop, one calling empty and size.       *)
(***************************************************************************)
Pushers == {"pusher"}
Takers == {"taker1", "taker2"}
Pollers == {"poller"}
Observers == {"observer"}
Callers == Pushers \cup Takers \cup Pollers \cup Observers
Workers == {"generator", "filter"}

VARIABLES
    use_csv_mode_,          \* DataGenerator::use_csv_mode_
    m_,                     \* DataGenerator::m_
    threshold_value_,       \* FilterThreshold::threshold_value_ (x100)
    file_exists,            \* whether csv_filepath_ names a readable file
    file,                   \* the lines of the CSV file
    trailing_newline,       \* whether the last line ends in a newline
    csv_file_stream_,       \* DataGenerator::csv_file_stream_
    csv_buffer_,            \* DataGenerator::csv_buffer_
    current_row_values_,    \* DataGenerator::current_row_values_
    current_row_idx_,       \* DataGenerator::current_row_idx_
    line_number_,           \* DataGenerator::line_number_
    gen_running_,           \* DataGenerator::running_
    gen_pc,                 \* position of the producer thread
    gen_item,               \* the pair being pushed by the producer
    queue_,                 \* BlockingQueue::queue_
    mutex_,                 \* BlockingQueue::mutex_ (owner)
    filter_running_,        \* FilterThreshold::running_
    filter_pc,              \* position of the consumer thread
    received_pair,          \* FilterThreshold::run local
    data_buffer_,           \* FilterThreshold::data_buffer_
    decisions,              \* lines written by process_element
    residual,               \* "Remaining elements" report of run
    producer_is_finished,   \* main: bool producer_is_finished
    main_pc,                \* position of the coordinator thread
    pushed,                 \* history: pairs pushed
    popped,                 \* history: pairs returned by try_pop
    ingested,               \* history: bytes appended to data_buffer_
    buffer_pos,             \* history: stream index of each buffered byte
    decision_pos,           \* history: stream index of each subject
    flag_writes,            \* history: writes to producer_is_finished
    cond_var_,              \* BlockingQueue::cond_var_ (the threads waiting)
    callers,                \* threads calling the operations of BlockingQueue
    t_ns_,                  \* DataGenerator::t_ns_, FilterThreshold::t_ns_
    pace                    \* the timing of each worker's current cycle

cfg_vars == <<use_csv_mode_, m_, threshold_value_, file_exists, file,
              trailing_newline>>
src_vars == <<csv_file_stream_, csv_buffer_, current_row_values_,
              current_row_idx_, line_number_>>
gen_vars == <<gen_running_, gen_pc, gen_item>>
queue_vars == <<queue_, mutex_, pushed, popped>>
filter_vars == <<filter_running_, filter_pc, received_pair, data_buffer_,
                 decisions, residual, ingested, buffer_pos, decision_pos>>
main_vars == <<producer_is_finished, main_pc, flag_writes>>
call_vars == <<cond_var_, callers>>
pace_vars == <<t_ns_, pace>>
vars == <<cfg_vars, src_vars, gen_vars, queue_vars, filter_vars, main_vars,
          call_vars, pace_vars>>

NoPair == <<0, 0>>
IdleCaller ==
    [pc |-> "idle", item |-> NoPair, found |-> FALSE, count |-> 0, calls |-> 0]
IdleWorker ==
    [pc |-> "start", now |-> 0, start |-> 0, elapsed |-> 0, slept |-> 0,
     cycles |-> 0]

(***************************************************************************)
(* main: t_ns values below 500 are replaced by 500.                        *)
(***************************************************************************)
ClampT(t) == IF t < 500 THEN 500 ELSE t

ClosedStream == [is_open |-> FALSE, pos |-> 0, eofbit |-> FALSE, failbit |-> FALSE]
OpenedStream == [is_open |-> TRUE, pos |-> 0, eofbit |-> FALSE, failbit |-> FALSE]

(***************************************************************************)
(* static_cast<uint8_t>(int)                                               *)
(***************************************************************************)
ToUint8(n) == n % 256

(***************************************************************************)
(* DataGenerator::open_csv on a path that names an existing file or not.   *)
(***************************************************************************)
open_csv(path_nonempty, exists) ==
    IF path_nonempty /\ exists THEN OpenedStream ELSE ClosedStream

Close(stream) == [stream EXCEPT !.is_open = FALSE]

(***************************************************************************)
(* std::getline(csv_file_stream_, line): a line is extracted only from a   *)
(* good stream that has characters left; reading the last line of a file   *)
(* without a final newline sets eofbit; a failed extraction sets failbit   *)
(* (and eofbit when the end of the file was hit).                          *)
(***************************************************************************)
getline(stream) ==
    LET good == stream.is_open /\ ~stream.eofbit /\ ~stream.failbit
    IN  IF good /\ stream.pos < Len(file)
        THEN [ok |-> TRUE,
              line |-> file[stream.pos + 1],
              stream |-> [stream EXCEPT
                             !.pos = @ + 1,
                             !.eofbit = (stream.pos + 1 = Len(file))
                                           /\ ~trailing_newline]]
        ELSE [ok |-> FALSE,
              line |-> << >>,
              stream |-> [stream EXCEPT !.eofbit = @ \/ good,
                                        !.failbit = TRUE]]

(***************************************************************************)
(* The cell loop of read_csv_pair: the cells of one line, left to right;   *)
(* only the first m_ cells are converted when m_ > 0; a cell std::stoi     *)
(* rejects is skipped; an accepted one is cast to uint8_t.                 *)
(***************************************************************************)
\* variant: one cell more than m_ is converted
RECURSIVE ParseCells_plus_one(_, _)
ParseCells_plus_one(line, count) ==
    IF count >= Len(line) THEN << >>
    ELSE LET cell == line[count + 1]
             rest == ParseCells_plus_one(line, count + 1)
         IN  IF (count <= m_ \/ m_ <= 0) /\ cell.valid
             THEN <<ToUint8(cell.value)>> \o rest
             ELSE rest

RECURSIVE ParseCells(_, _)
ParseCells(line, count) ==
    IF count >= Len(line) THEN << >>
    ELSE LET cell == line[count + 1]
             rest == ParseCells(line, count + 1)
         IN  IF (count < m_ \/ m_ <= 0) /\ cell.valid
             THEN <<ToUint8(cell.value)>> \o rest
             ELSE rest

(***************************************************************************)
(* The fill loop of read_csv_pair (while csv_buffer_.size() < 2) on the    *)
(* reader state s = [stream, buf, row, idx, line_number].                  *)
(***************************************************************************)
RECURSIVE FillBuffer(_)
FillBuffer(s) ==
    IF Len(s.buf) >= 2 THEN s
    ELSE IF s.idx < Len(s.row)
    THEN FillBuffer([s EXCEPT !.buf = Append(@, s.row[s.idx + 1]),
                              !.idx = @ + 1])
    ELSE LET g == getline(s.stream)
         IN  IF g.ok
             THEN LET row == ParseCells(g.line, 0)
                      s1 == [s EXCEPT !.stream = g.stream,
                                      !.line_number = @ + 1,
                                      !.row = row,
                                      !.idx = 0]
                  IN  IF 0 < Len(row)
                      THEN FillBuffer([s1 EXCEPT !.buf = Append(@, row[1]),
                                                 !.idx = 1])
                      ELSE IF g.stream.eofbit /\ row = << >>
                      THEN s1
                      ELSE FillBuffer(s1)
             ELSE [s EXCEPT !.stream = g.stream]

(***************************************************************************)
(* DataGenerator::read_csv_pair up to its push: the reader state after the *)
(* call, whether a pair was formed, and the pair.                          *)
(***************************************************************************)
read_csv_pair(s) ==
    LET reopened == IF s.stream.is_open THEN s.stream
                    ELSE open_csv(TRUE, file_exists)
    IN  IF ~reopened.is_open
        THEN [ok |-> FALSE, pair |-> NoPair, s |-> s]
        ELSE LET f == FillBuffer([s EXCEPT !.stream = reopened])
             IN  IF Len(f.buf) >= 2
                 THEN [ok |-> TRUE,
                       pair |-> <<f.buf[1], f.buf[2]>>,
                       s |-> [f EXCEPT !.buf = SubSeq(@, 3, Len(@))]]
                 ELSE IF f.buf # << >> /\ f.stream.eofbit
                            /\ f.idx >= Len(f.row)
                 THEN [ok |-> FALSE, pair |-> NoPair,
                       s |-> [f EXCEPT !.buf = << >>]]
                 ELSE [ok |-> FALSE, pair |-> NoPair, s |-> f]

ReaderState ==
    [stream |-> csv_file_stream_, buf |-> csv_buffer_,
     row |-> current_row_values_, idx |-> current_row_idx_,
     line_number |-> line_number_]

(***************************************************************************)
(* BlockingQueue: the bodies of the operations (executed while holding     *)
(* mutex_), the wait predicate of pop, notify_one and the lock.  In the    *)
(* pipeline notify_one has no effect: no thread of the program waits on    *)
(* cond_var_.                                                              *)
(***************************************************************************)
\* variant: a queue that holds two elements drops the item
push_bounded(q, item) == IF Len(q) >= 2 THEN q ELSE Append(q, item)

\* variant: the item is inserted at the head
push_front(q, item) == <<item>> \o q

push(q, item) == Append(q, item)

\* variant: a failed try_pop resets the caller's item
try_pop_clobber(q, item) ==
    IF q = << >>
    THEN [found |-> FALSE, item |-> NoPair, queue |-> q]
    ELSE [found |-> TRUE, item |-> Head(q), queue |-> Tail(q)]

try_pop(q, item) ==
    IF q = << >>
    THEN [found |-> FALSE, item |-> item, queue |-> q]
    ELSE [found |-> TRUE, item |-> Head(q), queue |-> Tail(q)]

\* variant: the emptiness check is skipped
empty_unchecked(q) == TRUE

empty(q) == q = << >>

size(q) == Len(q)

\* the predicate pop passes to cond_var_.wait
\* variant: the wait is over whatever the queue holds
pop_ready_always(q) == TRUE

pop_ready(q) == q # << >>

\* cond_var_.notify_one(): the sets of waiting threads it may leave
\* variant: no waiting thread is woken
notify_none(waiting) == {waiting}

notify_one(waiting) ==
    IF waiting = {} THEN {waiting} ELSE {waiting \ {w} : w \in waiting}

\* std::unique_lock<std::mutex> lock(mutex_) returns once mutex_ is free
\* variant: the lock is taken whoever holds it
lockable_always(m) == TRUE

lockable(m) == m = "free"

(***************************************************************************)
(* FilterThreshold::process_element on the filter state                    *)
(* st = [buf, out, bpos, dpos] (buffer, output, and the stream indices of  *)
(* the buffered bytes and of the subjects).                                *)
(***************************************************************************)
RECURSIVE WeightedSum(_, _)
WeightedSum(buf, i) ==
    IF i = 0 THEN 0
    ELSE WeightedSum(buf, i - 1) + buf[i] * FILTER_WINDOW[i]

filtered_value(buf) == WeightedSum(buf, WINDOW_SIZE)

\* variant: strict comparison with the threshold
defect_strict(fv) == fv > threshold_value_

defect(fv) == fv >= threshold_value_

\* variant: the newest element of the window is reported
subject_newest(buf) == buf[WINDOW_SIZE]

subject(buf) == buf[PAST_ELEMENTS + 1]

Evaluate(buf) ==
    [subject |-> subject(buf),
     filtered |-> filtered_value(buf),
     defect |-> defect(filtered_value(buf))]

\* variant: two elements are removed after an evaluation
process_element_pop2(st) ==
    IF Len(st.buf) < WINDOW_SIZE THEN st
    ELSE [buf |-> Tail(Tail(st.buf)),
          out |-> Append(st.out, Evaluate(st.buf)),
          bpos |-> Tail(Tail(st.bpos)),
          dpos |-> Append(st.dpos, subject(st.bpos))]

process_element(st) ==
    IF Len(st.buf) < WINDOW_SIZE THEN st
    ELSE [buf |-> Tail(st.buf),
          out |-> Append(st.out, Evaluate(st.buf)),
          bpos |-> Tail(st.bpos),
          dpos |-> Append(st.dpos, subject(st.bpos))]

\* data_buffer_.size() >= WINDOW_SIZE, the test of run before each
\* process_element
\* variant: strict comparison with WINDOW_SIZE
window_full_gt(buf) == Len(buf) > WINDOW_SIZE

window_full(buf) == Len(buf) >= WINDOW_SIZE

(***************************************************************************)
(* One ingest of FilterThreshold::run: push_back, then process_element     *)
(* when the buffer has reached WINDOW_SIZE.                                *)
(***************************************************************************)
\* variant: an ingest evaluates only once the buffer exceeds WINDOW_SIZE
Ingest_late(st, byte, pos) ==
    LET s1 == [st EXCEPT !.buf = Append(@, byte), !.bpos = Append(@, pos)]
    IN  IF Len(s1.buf) > WINDOW_SIZE THEN process_element(s1) ELSE s1

\* variant: the window is tested before the byte is appended
Ingest_test_first(st, byte, pos) ==
    LET s1 == IF window_full(st.buf) THEN process_element(st) ELSE st
    IN  [s1 EXCEPT !.buf = Append(@, byte), !.bpos = Append(@, pos)]

Ingest(st, byte, pos) ==
    LET s1 == [st EXCEPT !.buf = Append(@, byte), !.bpos = Append(@, pos)]
    IN  IF window_full(s1.buf) THEN process_element(s1) ELSE s1

(***************************************************************************)
(* The loop after the main loop of FilterThreshold::run.                   *)
(***************************************************************************)
\* variant: the buffer is discarded after the loop
Drain_clear(st) == [st EXCEPT !.buf = << >>, !.bpos = << >>]

RECURSIVE Drain(_)
Drain(st) ==
    IF window_full(st.buf) THEN Drain(process_element(st)) ELSE st

FilterState ==
    [buf |-> data_buffer_, out |-> decisions,
     bpos |-> buffer_pos, dpos |-> decision_pos]

(***************************************************************************)
(* The state after main has constructed data_queue, data_gen and           *)
(* filter_thresh (the DataGenerator constructor opens the file in CSV      *)
(* mode) and before it starts the two threads.                             *)
(***************************************************************************)
Init ==
    /\ threshold_value_ \in TVs
    /\ \/ /\ use_csv_mode_ = FALSE
          /\ m_ = 0
          /\ file_exists = FALSE
          /\ file = << >>
          /\ trailing_newline = TRUE
       \/ /\ use_csv_mode_ = TRUE
          /\ m_ \in Ms
          /\ file_exists \in BOOLEAN
          /\ file \in (IF file_exists THEN Files ELSE {<< >>})
          /\ trailing_newline \in
                (IF file # << >> /\ file[Len(file)] # << >>
                 THEN BOOLEAN ELSE {TRUE})
    /\ csv_file_stream_ =
          (IF use_csv_mode_ THEN open_csv(TRUE, file_exists) ELSE ClosedStream)
    /\ csv_buffer_ = << >>
    /\ current_row_values_ = << >>
    /\ current_row_idx_ = 0
    /\ line_number_ = 0
    /\ gen_running_ = TRUE
    /\ gen_pc = "start"
    /\ gen_item = NoPair
    /\ queue_ = << >>
    /\ mutex_ = "free"
    /\ filter_running_ = TRUE
    /\ filter_pc = "loop"
    /\ received_pair = NoPair
    /\ data_buffer_ = << >>
    /\ decisions = << >>
    /\ residual = << >>
    /\ producer_is_finished = FALSE
    /\ main_pc = "join_gen"
    /\ pushed = << >>
    /\ popped = << >>
    /\ ingested = << >>
    /\ buffer_pos = << >>
    /\ decision_pos = << >>
    /\ flag_writes = 0
    /\ cond_var_ = {}
    /\ callers = [c \in Callers |-> IdleCaller]
    /\ t_ns_ \in {ClampT(t) : t \in Ts}
    /\ pace = [w \in Workers |-> IdleWorker]

(***************************************************************************)
(* DataGenerator::run                                                      *)
(***************************************************************************)
\* the check before the loop: CSV mode with the file not open
GenStart ==
    /\ gen_pc = "start"
    /\ gen_running_' =
          (IF use_csv_mode_ /\ ~csv_file_stream_.is_open
           THEN FALSE ELSE gen_running_)
    /\ gen_pc' = "loop"
    /\ UNCHANGED <<call_vars, pace_vars>>
    /\ UNCHANGED <<cfg_vars, src_vars, gen_item, queue_vars, filter_vars,
                   main_vars>>

\* one iteration in CSV mode: read_csv_pair up to its push, or stop()
GenReadCsv ==
    /\ gen_pc = "loop"
    /\ gen_running_
    /\ use_csv_mode_
    /\ LET r == read_csv_pair(ReaderState)
       IN  /\ csv_buffer_' = r.s.buf
           /\ current_row_values_' = r.s.row
           /\ current_row_idx_' = r.s.idx
           /\ line_number_' = r.s.line_number
           /\ IF r.ok
              THEN /\ csv_file_stream_' = r.s.stream
                   /\ gen_item' = r.pair
                   /\ gen_pc' = "push_lock"
                   /\ UNCHANGED gen_running_
              ELSE /\ csv_file_stream_' = Close(r.s.stream)
                   /\ gen_running_' = FALSE
                   /\ UNCHANGED <<gen_item, gen_pc>>
    /\ UNCHANGED <<call_vars, pace_vars>>
    /\ UNCHANGED <<cfg_vars, queue_vars, filter_vars, main_vars>>

\* variant: the iteration in random mode calls stop() after generating
GenRandom_stops ==
    /\ gen_pc = "loop"
    /\ gen_running_
    /\ ~use_csv_mode_
    /\ Len(pushed) < MaxRandomPairs
    /\ \E val1 \in Bytes, val2 \in Bytes : gen_item' = <<val1, val2>>
    /\ gen_running_' = FALSE
    /\ gen_pc' = "push_lock"
    /\ UNCHANGED <<call_vars, pace_vars>>
    /\ UNCHANGED <<cfg_vars, src_vars, queue_vars, filter_vars, main_vars>>

\* one iteration in random mode: generate_random_pair up to its push
GenRandom ==
    /\ gen_pc = "loop"
    /\ gen_running_
    /\ ~use_csv_mode_
    /\ Len(pushed) < MaxRandomPairs
    /\ \E val1 \in Bytes, val2 \in Bytes : gen_item' = <<val1, val2>>
    /\ gen_pc' = "push_lock"
    /\ UNCHANGED <<call_vars, pace_vars>>
    /\ UNCHANGED <<cfg_vars, src_vars, gen_running_, queue_vars, filter_vars,
                   main_vars>>

\* BlockingQueue::push: acquire mutex_
GenPushLock ==
    /\ gen_pc = "push_lock"
    /\ mutex_ = "free"
    /\ mutex_' = "generator"
    /\ gen_pc' = "push"
    /\ UNCHANGED <<call_vars, pace_vars>>
    /\ UNCHANGED <<cfg_vars, src_vars, gen_running_, gen_item, queue_, pushed,
                   popped, filter_vars, main_vars>>

\* BlockingQueue::push: append, notify, release; then the pacing sleep
GenPush ==
    /\ gen_pc = "push"
    /\ queue_' = push(queue_, gen_item)
    /\ pushed' = Append(pushed, gen_item)
    /\ mutex_' = "free"
    /\ gen_pc' = "loop"
    /\ UNCHANGED <<call_vars, pace_vars>>
    /\ UNCHANGED <<cfg_vars, src_vars, gen_running_, gen_item, popped,
                   filter_vars, main_vars>>

\* the loop has ended: close the source, leave run
GenExit ==
    /\ gen_pc = "loop"
    /\ ~gen_running_
    /\ csv_file_stream_' = Close(csv_file_stream_)
    /\ gen_pc' = "done"
    /\ UNCHANGED <<call_vars, pace_vars>>
    /\ UNCHANGED <<cfg_vars, csv_buffer_, current_row_values_,
                   current_row_idx_, line_number_, gen_running_, gen_item,
                   queue_vars, filter_vars, main_vars>>

GenNext ==
    \/ GenStart
    \/ GenReadCsv
    \/ GenRandom
    \/ GenPushLock
    \/ GenPush
    \/ GenExit

(***************************************************************************)
(* FilterThreshold::run                                                    *)
(***************************************************************************)
\* while (running_): enter try_pop and acquire mutex_, or leave the loop
FilterLoop ==
    /\ filter_pc = "loop"
    /\ IF filter_running_
       THEN /\ mutex_ = "free"
            /\ mutex_' = "filter"
            /\ filter_pc' = "try_pop"
       ELSE /\ filter_pc' = "drain"
            /\ UNCHANGED mutex_
    /\ UNCHANGED <<call_vars, pace_vars>>
    /\ UNCHANGED <<cfg_vars, src_vars, gen_vars, queue_, pushed, popped,
                   filter_running_, received_pair, data_buffer_, decisions,
                   residual, ingested, buffer_pos, decision_pos, main_vars>>

\* BlockingQueue::try_pop: body and release
FilterTryPop ==
    /\ filter_pc = "try_pop"
    /\ LET r == try_pop(queue_, received_pair)
       IN  /\ queue_' = r.queue
           /\ received_pair' = r.item
           /\ popped' = (IF r.found THEN Append(popped, r.item) ELSE popped)
           /\ filter_pc' = (IF r.found THEN "ingest_first" ELSE "check_flag")
    /\ mutex_' = "free"
    /\ UNCHANGED <<call_vars, pace_vars>>
    /\ UNCHANGED <<cfg_vars, src_vars, gen_vars, pushed, filter_running_,
                   data_buffer_, decisions, residual, ingested, buffer_pos,
                   decision_pos, main_vars>>

\* received_pair.first and received_pair.second
\* variant: the second byte is taken for the first
first_swapped(pair) == pair[2]

first(pair) == pair[1]

second(pair) == pair[2]

\* the effect of one ingest on the filter's variables
IngestByte(byte) ==
    LET st == Ingest(FilterState, byte, Len(ingested))
    IN  /\ data_buffer_' = st.buf
        /\ decisions' = st.out
        /\ buffer_pos' = st.bpos
        /\ decision_pos' = st.dpos
        /\ ingested' = Append(ingested, byte)

\* variant: the cycle ends after the first byte of the pair
FilterIngestFirst_only ==
    /\ filter_pc = "ingest_first"
    /\ IngestByte(first(received_pair))
    /\ filter_pc' = "loop"
    /\ UNCHANGED <<call_vars, pace_vars>>
    /\ UNCHANGED <<cfg_vars, src_vars, gen_vars, queue_vars, filter_running_,
                   received_pair, residual, main_vars>>

\* push_back(received_pair.first) and the process_element that follows
FilterIngestFirst ==
    /\ filter_pc = "ingest_first"
    /\ IngestByte(first(received_pair))
    /\ filter_pc' = "ingest_second"
    /\ UNCHANGED <<call_vars, pace_vars>>
    /\ UNCHANGED <<cfg_vars, src_vars, gen_vars, queue_vars, filter_running_,
                   received_pair, residual, main_vars>>

\* variant: the second byte is appended without the window test
FilterIngestSecond_untested ==
    /\ filter_pc = "ingest_second"
    /\ data_buffer_' = Append(data_buffer_, second(received_pair))
    /\ buffer_pos' = Append(buffer_pos, Len(ingested))
    /\ ingested' = Append(ingested, second(received_pair))
    /\ filter_pc' = "loop"
    /\ UNCHANGED <<call_vars, pace_vars>>
    /\ UNCHANGED <<cfg_vars, src_vars, gen_vars, queue_vars, filter_running_,
                   received_pair, decisions, decision_pos, residual, main_vars>>

\* push_back(received_pair.second), process_element, the pacing sleep
FilterIngestSecond ==
    /\ filter_pc = "ingest_second"
    /\ IngestByte(second(received_pair))
    /\ filter_pc' = "loop"
    /\ UNCHANGED <<call_vars, pace_vars>>
    /\ UNCHANGED <<cfg_vars, src_vars, gen_vars, queue_vars, filter_running_,
                   received_pair, residual, main_vars>>

\* variant: the flag is not consulted
FilterCheckFlag_unread ==
    /\ filter_pc = "check_flag"
    /\ filter_pc' = "empty_lock"
    /\ UNCHANGED <<call_vars, pace_vars>>
    /\ UNCHANGED <<cfg_vars, src_vars, gen_vars, queue_vars, filter_running_,
                   received_pair, data_buffer_, decisions, residual, ingested,
                   buffer_pos, decision_pos, main_vars>>

\* queue was empty: read producer_finished_flag_ (left operand of &&); the
\* read yields the value main last wrote
FilterCheckFlag ==
    /\ filter_pc = "check_flag"
    /\ filter_pc' = (IF producer_is_finished THEN "empty_lock" ELSE "loop")
    /\ UNCHANGED <<call_vars, pace_vars>>
    /\ UNCHANGED <<cfg_vars, src_vars, gen_vars, queue_vars, filter_running_,
                   received_pair, data_buffer_, decisions, residual, ingested,
                   buffer_pos, decision_pos, main_vars>>

\* the same read when it misses main's write: producer_is_finished is a
\* plain bool and nothing orders the read after the write, so the read may
\* still yield false
FilterCheckFlagStale ==
    /\ filter_pc = "check_flag"
    /\ producer_is_finished
    /\ filter_pc' = "loop"
    /\ UNCHANGED <<call_vars, pace_vars>>
    /\ UNCHANGED <<cfg_vars, src_vars, gen_vars, queue_vars, filter_running_,
                   received_pair, data_buffer_, decisions, residual, ingested,
                   buffer_pos, decision_pos, main_vars>>

\* BlockingQueue::empty: acquire mutex_
FilterEmptyLock ==
    /\ filter_pc = "empty_lock"
    /\ mutex_ = "free"
    /\ mutex_' = "filter"
    /\ filter_pc' = "empty"
    /\ UNCHANGED <<call_vars, pace_vars>>
    /\ UNCHANGED <<cfg_vars, src_vars, gen_vars, queue_, pushed, popped,
                   filter_running_, received_pair, data_buffer_, decisions,
                   residual, ingested, buffer_pos, decision_pos, main_vars>>

\* BlockingQueue::empty: body and release; break when it returned true
FilterEmpty ==
    /\ filter_pc = "empty"
    /\ filter_pc' = (IF empty(queue_) THEN "drain" ELSE "loop")
    /\ mutex_' = "free"
    /\ UNCHANGED <<call_vars, pace_vars>>
    /\ UNCHANGED <<cfg_vars, src_vars, gen_vars, queue_, pushed, popped,
                   filter_running_, received_pair, data_buffer_, decisions,
                   residual, ingested, buffer_pos, decision_pos, main_vars>>

\* after the loop: process the remaining full windows, report the rest
FilterFinish ==
    /\ filter_pc = "drain"
    /\ LET st == Drain(FilterState)
       IN  /\ data_buffer_' = st.buf
           /\ decisions' = st.out
           /\ buffer_pos' = st.bpos
           /\ decision_pos' = st.dpos
           /\ residual' = st.buf
    /\ filter_pc' = "done"
    /\ UNCHANGED <<call_vars, pace_vars>>
    /\ UNCHANGED <<cfg_vars, src_vars, gen_vars, queue_vars, filter_running_,
                   received_pair, ingested, main_vars>>

FilterNext ==
    \/ FilterLoop
    \/ FilterTryPop
    \/ FilterIngestFirst
    \/ FilterIngestSecond
    \/ FilterCheckFlag
    \/ FilterCheckFlagStale
    \/ FilterEmptyLock
    \/ FilterEmpty
    \/ FilterFinish

(***************************************************************************)
(* main, from the start of the two threads                                 *)
(***************************************************************************)
\* data_gen_thread.join() returns once DataGenerator::run has returned
\* variant: main does not wait for the producer before signalling
GenJoinable_nowait == TRUE

GenJoinable == gen_pc = "done"

MainJoinGen ==
    /\ main_pc = "join_gen"
    /\ GenJoinable
    /\ main_pc' = "signal"
    /\ UNCHANGED <<call_vars, pace_vars>>
    /\ UNCHANGED <<cfg_vars, src_vars, gen_vars, queue_vars, filter_vars,
                   producer_is_finished, flag_writes>>

\* producer_is_finished = true
MainSignal ==
    /\ main_pc = "signal"
    /\ producer_is_finished' = TRUE
    /\ flag_writes' = flag_writes + 1
    /\ main_pc' = "join_filter"
    /\ UNCHANGED <<call_vars, pace_vars>>
    /\ UNCHANGED <<cfg_vars, src_vars, gen_vars, queue_vars, filter_vars>>

\* filter_thresh_thread.join(), "Simulation complete."
MainJoinFilter ==
    /\ main_pc = "join_filter"
    /\ filter_pc = "done"
    /\ main_pc' = "done"
    /\ UNCHANGED <<call_vars, pace_vars>>
    /\ UNCHANGED <<cfg_vars, src_vars, gen_vars, queue_vars, filter_vars,
                   producer_is_finished, flag_writes>>

MainNext ==
    \/ MainJoinGen
    \/ MainSignal
    \/ MainJoinFilter

Next ==
    \/ GenNext
    \/ FilterNext
    \/ MainNext

Spec == Init /\ [][Next]_vars

\* a thread that keeps asking for mutex_ gets it: the other thread releases
\* it within its cycle and then sleeps for t_ns_
LockFairness ==
    /\ SF_vars(GenPushLock)
    /\ SF_vars(FilterLoop)
    /\ SF_vars(FilterEmptyLock)

\* the three threads are scheduled fairly
FairSpec ==
    /\ Spec
    /\ WF_vars(GenNext)
    /\ WF_vars(FilterNext)
    /\ WF_vars(MainNext)
    /\ LockFairness

\* the pipeline on a file-backed source of at most MaxLiveLines lines
CsvInit ==
    /\ Init
    /\ use_csv_mode_
    /\ Len(file) <= MaxLiveLines

CsvGenNext ==
    \/ GenStart
    \/ GenReadCsv
    \/ GenPushLock
    \/ GenPush
    \/ GenExit

CsvNext ==
    \/ CsvGenNext
    \/ FilterNext
    \/ MainNext

CsvFairSpec ==
    /\ CsvInit
    /\ [][CsvNext]_vars
    /\ WF_vars(CsvGenNext)
    /\ WF_vars(FilterNext)
    /\ WF_vars(MainNext)
    /\ LockFairness

\* the same, with reads of the flag that eventually see main's write
CsvCoherentSpec ==
    /\ CsvFairSpec
    /\ SF_vars(FilterCheckFlag /\ producer_is_finished)

Stopped == main_pc = "done"

TypeOK ==
    /\ gen_pc \in {"start", "loop", "push_lock", "push", "done"}
    /\ filter_pc \in {"loop", "try_pop", "ingest_first", "ingest_second",
                      "check_flag", "empty_lock", "empty", "drain", "done"}
    /\ main_pc \in {"join_gen", "signal", "join_filter", "done"}
    /\ mutex_ \in {"free", "generator", "filter"}

(***************************************************************************)
(* BlockingQueue under arbitrary callers: Pushers call push, Takers call   *)
(* pop once, Pollers call try_pop, Observers call empty and size.  The     *)
(* threads of the pipeline are not started.                                *)
(***************************************************************************)
\* what the callers leave alone
program_vars ==
    <<cfg_vars, src_vars, gen_vars, filter_vars, main_vars, pace_vars>>

\* a caller whose call has returned
Returned(c, item, found, count) ==
    [callers[c] EXCEPT !.pc = "idle", !.item = item, !.found = found,
                       !.count = count, !.calls = @ + 1]

\* push: acquire mutex_
CallPushLock(c) ==
    /\ c \in Pushers
    /\ callers[c].pc = "idle"
    /\ Len(pushed) < MaxPushes
    /\ lockable(mutex_)
    /\ mutex_' = c
    /\ \E item \in Pairs :
          callers' = [callers EXCEPT ![c].pc = "push", ![c].item = item]
    /\ UNCHANGED <<queue_, pushed, popped, cond_var_>>
    /\ UNCHANGED program_vars

\* push: append, notify_one, release
CallPush(c) ==
    /\ callers[c].pc = "push"
    /\ queue_' = push(queue_, callers[c].item)
    /\ pushed' = Append(pushed, callers[c].item)
    /\ cond_var_' \in notify_one(cond_var_)
    /\ callers' =
          [x \in Callers |->
              IF x = c
              THEN Returned(c, callers[c].item, FALSE, 0)
              ELSE IF x \in cond_var_ \ cond_var_'
                   THEN [callers[x] EXCEPT !.pc = "woken"]
                   ELSE callers[x]]
    /\ mutex_' = "free"
    /\ UNCHANGED popped
    /\ UNCHANGED program_vars

\* pop: acquire mutex_
CallPopLock(c) ==
    /\ c \in Takers
    /\ callers[c].pc = "idle"
    /\ callers[c].calls = 0
    /\ lockable(mutex_)
    /\ mutex_' = c
    /\ callers' = [callers EXCEPT ![c].pc = "pop_check"]
    /\ UNCHANGED <<queue_, pushed, popped, cond_var_>>
    /\ UNCHANGED program_vars

\* pop: cond_var_.wait(lock, pred) tests pred while holding mutex_; when it
\* is false the thread releases mutex_ and waits, in one step
CallPopCheck(c) ==
    /\ callers[c].pc = "pop_check"
    /\ IF pop_ready(queue_)
       THEN /\ callers' = [callers EXCEPT ![c].pc = "pop_take"]
            /\ UNCHANGED <<mutex_, cond_var_>>
       ELSE /\ callers' = [callers EXCEPT ![c].pc = "waiting"]
            /\ cond_var_' = cond_var_ \cup {c}
            /\ mutex_' = "free"
    /\ UNCHANGED <<queue_, pushed, popped>>
    /\ UNCHANGED program_vars

\* pop: a waiting thread may wake without a notification
CallPopSpuriousWake(c) ==
    /\ c \in cond_var_
    /\ cond_var_' = cond_var_ \ {c}
    /\ callers' = [callers EXCEPT ![c].pc = "woken"]
    /\ UNCHANGED <<queue_, mutex_, pushed, popped>>
    /\ UNCHANGED program_vars

\* pop: a woken thread reacquires mutex_ and tests pred again
CallPopRelock(c) ==
    /\ callers[c].pc = "woken"
    /\ lockable(mutex_)
    /\ mutex_' = c
    /\ callers' = [callers EXCEPT ![c].pc = "pop_check"]
    /\ UNCHANGED <<queue_, pushed, popped, cond_var_>>
    /\ UNCHANGED program_vars

\* pop: front, pop, release, return
CallPopTake(c) ==
    /\ callers[c].pc = "pop_take"
    /\ queue_' = Tail(queue_)
    /\ popped' = Append(popped, Head(queue_))
    /\ callers' = [callers EXCEPT ![c] = Returned(c, Head(queue_), TRUE, 0)]
    /\ mutex_' = "free"
    /\ UNCHANGED <<pushed, cond_var_>>
    /\ UNCHANGED program_vars

\* try_pop: acquire mutex_
CallTryPopLock(c) ==
    /\ c \in Pollers
    /\ callers[c].pc = "idle"
    /\ callers[c].calls < MaxPolls
    /\ lockable(mutex_)
    /\ mutex_' = c
    /\ callers' = [callers EXCEPT ![c].pc = "try_pop"]
    /\ UNCHANGED <<queue_, pushed, popped, cond_var_>>
    /\ UNCHANGED program_vars

\* try_pop: body and release
CallTryPop(c) ==
    /\ callers[c].pc = "try_pop"
    /\ LET r == try_pop(queue_, callers[c].item)
       IN  /\ queue_' = r.queue
           /\ popped' = (IF r.found THEN Append(popped, r.item) ELSE popped)
           /\ callers' = [callers EXCEPT ![c] = Returned(c, r.item, r.found, 0)]
    /\ mutex_' = "free"
    /\ UNCHANGED <<pushed, cond_var_>>
    /\ UNCHANGED program_vars

\* empty: acquire mutex_
CallEmptyLock(c) ==
    /\ c \in Observers
    /\ callers[c].pc = "idle"
    /\ callers[c].calls < MaxObserves
    /\ lockable(mutex_)
    /\ mutex_' = c
    /\ callers' = [callers EXCEPT ![c].pc = "empty"]
    /\ UNCHANGED <<queue_, pushed, popped, cond_var_>>
    /\ UNCHANGED program_vars

\* empty: body and release
CallEmpty(c) ==
    /\ callers[c].pc = "empty"
    /\ callers' = [callers EXCEPT
                      ![c] = Returned(c, callers[c].item, empty(queue_), 0)]
    /\ mutex_' = "free"
    /\ UNCHANGED <<queue_, pushed, popped, cond_var_>>
    /\ UNCHANGED program_vars

\* size: acquire mutex_
CallSizeLock(c) ==
    /\ c \in Observers
    /\ callers[c].pc = "idle"
    /\ callers[c].calls < MaxObserves
    /\ lockable(mutex_)
    /\ mutex_' = c
    /\ callers' = [callers EXCEPT ![c].pc = "size"]
    /\ UNCHANGED <<queue_, pushed, popped, cond_var_>>
    /\ UNCHANGED program_vars

\* size: body and release
CallSize(c) ==
    /\ callers[c].pc = "size"
    /\ callers' = [callers EXCEPT
                      ![c] = Returned(c, callers[c].item, FALSE, size(queue_))]
    /\ mutex_' = "free"
    /\ UNCHANGED <<queue_, pushed, popped, cond_var_>>
    /\ UNCHANGED program_vars

CallStep(c) ==
    \/ CallPushLock(c)
    \/ CallPush(c)
    \/ CallPopLock(c)
    \/ CallPopCheck(c)
    \/ CallPopRelock(c)
    \/ CallPopTake(c)
    \/ CallTryPopLock(c)
    \/ CallTryPop(c)
    \/ CallEmptyLock(c)
    \/ CallEmpty(c)
    \/ CallSizeLock(c)
    \/ CallSize(c)

QueueNext ==
    \E c \in Callers :
        \/ CallStep(c)
        \/ CallPopSpuriousWake(c)

QueueInit ==
    /\ Init
    /\ ~use_csv_mode_
    /\ threshold_value_ = 5000

QueueSpec == QueueInit /\ [][QueueNext]_vars

\* a thread inside an operation is scheduled, and a woken taker that keeps
\* asking for mutex_ gets it; whether a thread starts another call is its
\* own choice, and no thread is owed a spurious wakeup
CallProgress(c) ==
    \/ CallPush(c)
    \/ CallPopCheck(c)
    \/ CallPopTake(c)
    \/ CallTryPop(c)
    \/ CallEmpty(c)
    \/ CallSize(c)

QueueFairSpec ==
    /\ QueueSpec
    /\ \A c \in Callers :
          /\ WF_vars(CallProgress(c))
          /\ SF_vars(CallPopRelock(c))

(***************************************************************************)
(* The timing of the loops of DataGenerator::run and FilterThreshold::run: *)
(* each worker reads its own clock (now, in nanoseconds); the unit of work *)
(* of a cycle takes one of WorkTimes; a cycle that ends the loop (stop()   *)
(* in the producer, break in the consumer) is not followed by a sleep.     *)
(***************************************************************************)
\* what the workers' cycles leave alone
untimed_vars ==
    <<cfg_vars, src_vars, gen_vars, queue_vars, filter_vars, main_vars,
      call_vars, t_ns_>>

\* std::this_thread::sleep_for(ns) suspends the thread for ns
sleep_for(ns) == ns

\* while (running_): a cycle starts
PaceBegin(w) ==
    /\ pace[w].pc = "start"
    /\ pace[w].cycles < MaxCycles
    /\ pace' = [pace EXCEPT ![w].pc = "work",
                            ![w].start = pace[w].now,
                            ![w].cycles = @ + 1]
    /\ UNCHANGED untimed_vars

\* the unit of work, which may end the loop
PaceWork(w) ==
    /\ pace[w].pc = "work"
    /\ \E e \in WorkTimes, last \in BOOLEAN :
          pace' = [pace EXCEPT ![w].pc = (IF last THEN "done" ELSE "sleep"),
                               ![w].elapsed = e,
                               ![w].now = @ + e]
    /\ UNCHANGED untimed_vars

\* std::this_thread::sleep_for(std::chrono::nanoseconds(t_ns_))
PaceSleep(w) ==
    /\ pace[w].pc = "sleep"
    /\ pace' = [pace EXCEPT ![w].pc = "start",
                            ![w].slept = sleep_for(t_ns_),
                            ![w].now = @ + sleep_for(t_ns_)]
    /\ UNCHANGED untimed_vars

PaceNext ==
    \E w \in Workers :
        \/ PaceBegin(w)
        \/ PaceWork(w)
        \/ PaceSleep(w)

PaceInit ==
    /\ Init
    /\ ~use_csv_mode_
    /\ threshold_value_ = 5000

PaceSpec == PaceInit /\ [][PaceNext]_vars

(***************************************************************************)
(* Properties                                                              *)
(***************************************************************************)
IsPrefix(a, b) == Len(a) <= Len(b) /\ a = SubSeq(b, 1, Len(a))

RECURSIVE Flatten(_)
Flatten(pairs) ==
    IF pairs = << >> THEN << >>
    ELSE <<pairs[1][1], pairs[1][2]>> \o Flatten(Tail(pairs))

Max(a, b) == IF a >= b THEN a ELSE b

\* C1: in every state the pairs returned by try_pop so far are a prefix of
\* the pairs pushed so far, and the pairs pushed are exactly those returned
\* followed by those still queued, in order (no loss, duplication or
\* reordering); so once the channel is empty again the returned sequence is
\* the pushed sequence.
C1_FifoPrefix ==
    /\ IsPrefix(popped, pushed)
    /\ pushed = popped \o queue_
    /\ (queue_ = << >> => popped = pushed)

\* pushes and polls have interleaved: two different pairs were returned
\* while later pairs are still queued
C1_Witness ==
    /\ Len(popped) >= 2
    /\ popped[1] # popped[2]
    /\ Len(queue_) >= 2

\* C2: the consumer leaves its main loop only by the step that finds the
\* channel empty at the emptiness check, taken after a failed poll and a
\* read of the finished signal that returned true; and whenever the consumer
\* is out of its loop the channel is empty, the producer has exited, and
\* every pushed pair has been ingested exactly once, in order.
C2_LoopExited == filter_pc \in {"drain", "done"}

C2_ExitOnlyWhenDrained ==
    /\ [](C2_LoopExited =>
            /\ queue_ = << >>
            /\ gen_pc = "done"
            /\ producer_is_finished
            /\ popped = pushed
            /\ ingested = Flatten(pushed)
            /\ Len(ingested) = 2 * Len(pushed))
    /\ [][(~C2_LoopExited /\ C2_LoopExited') =>
            /\ filter_pc = "empty"
            /\ queue_ = << >>
            /\ producer_is_finished]_vars

\* the consumer has left its loop after ingesting several pairs
C2_Witness ==
    /\ filter_pc = "drain"
    /\ Len(pushed) >= 3

\* C3: the finished signal is false while the producer has not returned from
\* run or still holds its source open; it is written at most once, only by
\* main's signalling step, only from false to true, only after the producer
\* was joined; it is never reset; at Stopped it has been written exactly
\* once.
C3_SignalAfterProducerExit ==
    /\ [](/\ producer_is_finished => (gen_pc = "done"
                                         /\ ~csv_file_stream_.is_open)
          /\ flag_writes <= 1
          /\ producer_is_finished <=> (flag_writes = 1)
          /\ Stopped => flag_writes = 1)
    /\ [][producer_is_finished => producer_is_finished']_vars
    /\ [][producer_is_finished' # producer_is_finished =>
            /\ main_pc = "signal"
            /\ gen_pc = "done"
            /\ ~producer_is_finished
            /\ producer_is_finished']_vars

\* the signal was published after a producer that pushed pairs, while the
\* consumer is still in its loop
C3_Witness ==
    /\ producer_is_finished
    /\ Len(pushed) >= 1
    /\ filter_pc = "check_flag"

\* C4: with a file-backed (finite) source and the three threads scheduled
\* fairly, the pipeline eventually reaches Stopped.
C4_EventuallyStopped == <>Stopped

\* the kernel of the claims, scaled by 100
ClaimedKernel == <<5, 10, 15, 20, 25, 20, 15, 10, 5>>

\* sum over k in from..4 of seq[i + k] * kernel[k + 4], for 0-based i
RECURSIVE CenteredSum(_, _, _)
CenteredSum(seq, i, from) ==
    IF from > 4 THEN 0
    ELSE seq[i + from + 1] * ClaimedKernel[from + 5]
            + CenteredSum(seq, i, from + 1)

\* C5: every (0-based) index i of the ingested bytes with 4 <= i <= len - 5
\* has exactly one decision; its reported subject is the byte at i and it is
\* DEFECT exactly when the kernel-weighted sum of the 9 bytes centered at i
\* is >= TV.
C5_WindowDecision ==
    \A i \in 4..(Len(ingested) - 5) :
        \E d \in 1..Len(decisions) :
            /\ decision_pos[d] = i
            /\ \A e \in 1..Len(decisions) : decision_pos[e] = i => e = d
            /\ decisions[d].subject = ingested[i + 1]
            /\ decisions[d].defect
                  <=> (CenteredSum(ingested, i, -4) >= threshold_value_)

\* both outcomes were emitted, one of them for a sum equal to TV
C5_Witness ==
    \E d \in 1..Len(decisions), e \in 1..Len(decisions) :
        /\ decisions[d].defect
        /\ decisions[d].filtered = threshold_value_
        /\ ~decisions[e].defect

\* C6: in every state the number of decisions emitted is max(0, n - 8) for n
\* bytes ingested, and the window of every decision lies within the bytes
\* ingested (4 before the subject, 4 after).
C6_DecisionCount ==
    /\ Len(decisions) = Max(0, Len(ingested) - 8)
    /\ \A d \in 1..Len(decision_pos) :
          /\ decision_pos[d] - 4 >= 0
          /\ decision_pos[d] + 4 <= Len(ingested) - 1

\* a finished run that emitted decisions
C6_Witness ==
    /\ Stopped
    /\ Len(decisions) >= 2

\* the decisions of one left-to-right pass of the 9-wide window over seq
RECURSIVE WindowSum(_, _, _)
WindowSum(seq, start, j) ==
    IF j > 9 THEN 0
    ELSE seq[start + j - 1] * ClaimedKernel[j] + WindowSum(seq, start, j + 1)

Offline(seq) ==
    [d \in 1..Max(0, Len(seq) - 8) |->
        [subject |-> seq[d + 4],
         filtered |-> WindowSum(seq, d, 1),
         defect |-> WindowSum(seq, d, 1) >= threshold_value_]]

\* C7: the decisions emitted so far are those of the offline pass over the
\* bytes ingested so far, which are a prefix of the flattened pushed pairs;
\* at Stopped the decisions are those of the offline pass over the whole
\* flattened sequence of pushed pairs.
C7_OfflineEquivalence ==
    /\ decisions = Offline(ingested)
    /\ IsPrefix(ingested, Flatten(pushed))
    /\ Stopped => decisions = Offline(Flatten(pushed))

\* a finished run with several decisions, not all alike
C7_Witness ==
    /\ Stopped
    /\ Len(decisions) >= 3
    /\ \E d \in 1..Len(decisions), e \in 1..Len(decisions) :
          decisions[d].defect # decisions[e].defect

\* C8 as stated: after the drain the residual length is
\* max(0, totalIngested - firstCenterIndex - numDecisionsEmitted).
C8_ResidualFormula ==
    filter_pc = "done" =>
        Len(residual) = Max(0, Len(ingested) - PAST_ELEMENTS - Len(decisions))

\* C8 (amended): after the drain the residual is the buffer and its length
\* is totalIngested - numDecisionsEmitted, that is min(totalIngested, 8).
C8_ResidualLength ==
    filter_pc = "done" =>
        /\ residual = data_buffer_
        /\ Len(residual) = Len(ingested) - Len(decisions)
        /\ Len(residual) = (IF Len(ingested) < 8 THEN Len(ingested) ELSE 8)

\* a run that emitted decisions has reported its residual
C8_Witness ==
    /\ filter_pc = "done"
    /\ Len(decisions) >= 1
    /\ residual # << >>

\* C9: after the drain the residual has fewer than 9 elements.
C9_ResidualBound == filter_pc = "done" => Len(residual) < 9

\* the residual of a run that filled the window
C9_Witness ==
    /\ filter_pc = "done"
    /\ Len(residual) = 8
    /\ Len(ingested) >= 10

\* C10 as stated: no sample that was the subject of a decision is reported
\* in the residual.
C10_NoSubjectInResidual ==
    filter_pc = "done" =>
        \A j \in 1..Len(buffer_pos), d \in 1..Len(decision_pos) :
            buffer_pos[j] # decision_pos[d]

\* C10 (amended): the residual is the last min(n, 8) bytes ingested, in
\* order; the last min(n, 4) bytes of the stream are all in it and none of
\* them was the subject of a decision.
C10_TailNeverJudged ==
    filter_pc = "done" =>
        LET n == Len(ingested)
        IN  /\ residual = SubSeq(ingested, n - Len(residual) + 1, n)
            /\ \A j \in 1..Len(buffer_pos) :
                  buffer_pos[j] = n - Len(residual) + j - 1
            /\ \A i \in Max(0, n - 4)..(n - 1) :
                  /\ \E j \in 1..Len(buffer_pos) : buffer_pos[j] = i
                  /\ \A d \in 1..Len(decision_pos) : decision_pos[d] # i

\* a reported residual that holds a sample judged earlier
C10_Witness ==
    /\ filter_pc = "done"
    /\ \E j \in 1..Len(buffer_pos), d \in 1..Len(decision_pos) :
          buffer_pos[j] = decision_pos[d]

\* C11: try_pop never waits once it holds the lock; on an empty queue it
\* returns false and leaves the queue and the caller's item as they were; on
\* a non-empty queue it returns true, hands over the head and removes exactly
\* that element, the rest keeping its order.
C11_TryPopContract ==
    /\ [](filter_pc = "try_pop" => ENABLED FilterTryPop)
    /\ [][filter_pc = "try_pop" /\ filter_pc' # "try_pop" =>
            IF queue_ = << >>
            THEN /\ filter_pc' = "check_flag"
                 /\ queue_' = queue_
                 /\ received_pair' = received_pair
                 /\ popped' = popped
            ELSE /\ filter_pc' = "ingest_first"
                 /\ received_pair' = Head(queue_)
                 /\ queue_' = Tail(queue_)
                 /\ popped' = Append(popped, Head(queue_))]_vars

\* a try_pop has failed after an earlier one had delivered a non-zero pair;
\* the producer has pushed again since
C11_Witness ==
    /\ filter_pc = "check_flag"
    /\ received_pair # NoPair
    /\ Len(popped) >= 1
    /\ Len(pushed) >= Len(popped) + 1

\* C12: pop never removes from an empty queue: a taker gets past the wait
\* only while the queue is non-empty, and every return of pop hands over the
\* element that is the head at that step and removes exactly that element,
\* whoever else is taking or polling.
C12_PopNeverOnEmpty ==
    /\ [](\A c \in Takers : callers[c].pc = "pop_take" => queue_ # << >>)
    /\ [][\A c \in Takers :
            callers'[c].calls # callers[c].calls =>
                /\ queue_ # << >>
                /\ callers'[c].item = Head(queue_)
                /\ queue_' = Tail(queue_)
                /\ popped' = Append(popped, Head(queue_))]_vars

\* one taker has returned with an element; the other was woken and finds
\* the queue empty, the poller having taken what was pushed for it
C12_Witness ==
    /\ callers["taker1"].calls = 1
    /\ callers["taker2"].pc = "woken"
    /\ callers["poller"].found
    /\ queue_ = << >>
    /\ Len(popped) = 2

\* the takers that have entered pop (returned or not), those that have
\* returned, and the pushed elements that no try_pop has removed
EnteredTakers ==
    {c \in Takers : callers[c].pc # "idle" \/ callers[c].calls > 0}
ReturnedTakers == {c \in Takers : callers[c].calls > 0}
LeftForTakers == Len(queue_) + Cardinality(ReturnedTakers)
PollersDone ==
    \A c \in Pollers : callers[c].pc = "idle" /\ callers[c].calls = MaxPolls

\* C13: no lost wakeup: once k takers have entered pop and k pushed elements
\* are out of the reach of try_pop, k calls of pop eventually return.
C13_NoLostWakeup ==
    \A k \in 1..Cardinality(Takers) :
        (/\ PollersDone
         /\ Cardinality(EnteredTakers) >= k
         /\ LeftForTakers >= k)
            ~> (Cardinality(ReturnedTakers) >= k)

\* both takers wait on cond_var_ while the pusher, holding mutex_, is about
\* to push the first element
C13_Witness ==
    /\ cond_var_ = Takers
    /\ callers["pusher"].pc = "push"
    /\ pushed = << >>

\* C14: push waits for nothing but mutex_ and never fails: the producer can
\* take the lock exactly when it is free, and once it holds it the push
\* completes, on a queue of any length n, with length n + 1, the new pair at
\* the tail and the n elements before it unchanged.
C14_PushAppends ==
    /\ [](gen_pc = "push_lock" => (ENABLED GenPushLock <=> mutex_ = "free"))
    /\ [](gen_pc = "push" => ENABLED GenPush)
    /\ [][gen_pc = "push" /\ gen_pc' # "push" =>
            /\ Len(queue_') = Len(queue_) + 1
            /\ queue_'[Len(queue_')] = gen_item
            /\ SubSeq(queue_', 1, Len(queue_)) = queue_]_vars

\* a push has completed on a queue that already held three pairs
C14_Witness ==
    /\ gen_pc = "loop"
    /\ Len(queue_) >= 4
    /\ queue_[Len(queue_)] = gen_item

\* the callers inside the critical section of an operation
InCriticalSection ==
    {c \in Callers : callers[c].pc \in
        {"push", "pop_check", "pop_take", "try_pop", "empty", "size"}}

\* C15: at most one caller at a time is inside the critical section of push,
\* pop, try_pop, empty or size, and it is the holder of mutex_; a taker that
\* waits on cond_var_ holds no lock; the queue changes only in a step of the
\* caller inside the critical section.
C15_MutualExclusion ==
    /\ [](Cardinality(InCriticalSection) <= 1)
    /\ [](\A c \in Callers : c \in InCriticalSection <=> mutex_ = c)
    /\ [](\A c \in cond_var_ : callers[c].pc = "waiting" /\ mutex_ # c)
    /\ [][queue_' # queue_ =>
            /\ mutex_ \in InCriticalSection
            /\ callers'[mutex_] # callers[mutex_]
            /\ \A c \in Callers \ {mutex_} :
                  callers'[c].pc # callers[c].pc => callers'[c].pc = "woken"]_vars

\* a taker waits on cond_var_ while the poller is inside try_pop, and the
\* other taker is blocked on mutex_ after its wakeup
C15_Witness ==
    /\ callers["taker1"].pc = "waiting"
    /\ callers["taker2"].pc = "woken"
    /\ mutex_ = "poller"
    /\ queue_ # << >>

\* C16 as stated: once main has written true to producer_is_finished, every
\* read of the flag by the consumer yields true (the consumer goes on to
\* test the queue for emptiness).
C16_ReadSeesWrite ==
    [][filter_pc = "check_flag" /\ producer_is_finished
          /\ filter_pc' # "check_flag" =>
            filter_pc' = "empty_lock"]_vars

\* C17 as stated: when the file of the file-backed source cannot be opened,
\* the producer pushes nothing and exits, main signals, and the pipeline
\* reaches Stopped with no pair pushed, no decision and an empty residual.
C17_OpenFailureStops ==
    (use_csv_mode_ /\ ~file_exists) ~>
        (/\ Stopped
         /\ gen_pc = "done"
         /\ producer_is_finished
         /\ pushed = << >>
         /\ decisions = << >>
         /\ residual = << >>)

\* the byte values of the cells std::stoi accepts, left to right
RECURSIVE ValidValues(_)
ValidValues(cells) ==
    IF cells = << >> THEN << >>
    ELSE (IF cells[1].valid THEN <<ToUint8(cells[1].value)>> ELSE << >>)
            \o ValidValues(Tail(cells))

\* the cells of a row within the m declared columns
DeclaredCells(line) ==
    IF m_ > 0 /\ Len(line) > m_ THEN SubSeq(line, 1, m_) ELSE line

\* the value stream of the file, row by row: of all cells, of declared cells
RECURSIVE AllValues(_)
AllValues(lines) ==
    IF lines = << >> THEN << >>
    ELSE ValidValues(lines[1]) \o AllValues(Tail(lines))

RECURSIVE UsedValues(_)
UsedValues(lines) ==
    IF lines = << >> THEN << >>
    ELSE ValidValues(DeclaredCells(lines[1])) \o UsedValues(Tail(lines))

\* the consecutive pairs of a value stream, an odd last value left out
PairUp(seq) == [i \in 1..(Len(seq) \div 2) |-> <<seq[2 * i - 1], seq[2 * i]>>]

\* C18 as stated: with V the number of parsable values of all rows, the
\* producer has pushed, when it stops, exactly the floor(V/2) consecutive
\* pairs of the flattened value stream.
C18_PairsOfAllValues ==
    (use_csv_mode_ /\ file_exists) =>
        /\ IsPrefix(pushed, PairUp(AllValues(file)))
        /\ gen_pc = "done" => pushed = PairUp(AllValues(file))

\* C18 (amended): the same, with the value stream made of the parsable
\* values among the first m cells of each row (of all cells when m <= 0).
C18_PairsOfUsedValues ==
    (use_csv_mode_ /\ file_exists) =>
        /\ IsPrefix(pushed, PairUp(UsedValues(file)))
        /\ gen_pc = "done" => pushed = PairUp(UsedValues(file))

\* the producer has stopped on a file of seven values spread over three
\* rows: three pairs pushed, one of them straddling two rows, the seventh
\* value discarded
C18_Witness ==
    /\ use_csv_mode_
    /\ file_exists
    /\ gen_pc = "done"
    /\ Len(file) = 3
    /\ Len(UsedValues(file)) = 7
    /\ Len(pushed) = 3
    /\ csv_buffer_ = << >>

\* the window of the d-th decision, and whether its nine bytes are equal
WindowOf(d) == SubSeq(ingested, d, d + WINDOW_SIZE - 1)
EqualWindow(d) == \A i \in 1..WINDOW_SIZE : WindowOf(d)[i] = WindowOf(d)[1]
KernelSymmetric ==
    \A i \in 1..WINDOW_SIZE : FILTER_WINDOW[i] = FILTER_WINDOW[WINDOW_SIZE + 1 - i]
NineHundreds == [i \in 1..WINDOW_SIZE |-> 100]

\* what is claimed of nine samples of value 100: one decision, NO_DEFECT
\* with TV = 1275 and DEFECT with TV = 50
NineHundredsDecision ==
    ingested = NineHundreds =>
        /\ Len(decisions) = 1
        /\ threshold_value_ = 127500 => ~decisions[1].defect
        /\ threshold_value_ = 5000 => decisions[1].defect

\* C19 as stated: the kernel is symmetric and a window of nine equal bytes v
\* has filtered value v, so that its decision is DEFECT exactly when
\* v >= TV.
C19_UnitGain ==
    /\ KernelSymmetric
    /\ NineHundredsDecision
    /\ \A d \in 1..Len(decisions) :
          EqualWindow(d) =>
              LET v == WindowOf(d)[1]
              IN  /\ decisions[d].filtered = 100 * v
                  /\ decisions[d].defect <=> (100 * v >= threshold_value_)

\* C19 (amended): the kernel is symmetric and its weights sum to 1.25; a
\* window of nine equal bytes v has filtered value 1.25 v, so that its
\* decision is DEFECT exactly when 1.25 v >= TV.
C19_KernelGain ==
    /\ KernelSymmetric
    /\ NineHundredsDecision
    /\ \A d \in 1..Len(decisions) :
          EqualWindow(d) =>
              LET v == WindowOf(d)[1]
              IN  /\ decisions[d].filtered = 125 * v
                  /\ decisions[d].defect <=> (125 * v >= threshold_value_)

\* nine samples of value 100 judged against TV = 110: DEFECT, the filtered
\* value being 125
C19_Witness ==
    /\ ingested = NineHundreds
    /\ threshold_value_ = 11000
    /\ Len(decisions) = 1
    /\ decisions[1].filtered = 12500
    /\ decisions[1].defect

\* C20 as stated: a worker that comes to the start of its next cycle has
\* slept T - e when the unit of work of the cycle before took e < T and not
\* at all when e >= T, and the cycle before started at least T earlier.
C20_PacingByRemainder ==
    \A w \in Workers :
        (pace[w].pc = "start" /\ pace[w].cycles >= 1) =>
            /\ pace[w].slept =
                  (IF pace[w].elapsed < t_ns_
                   THEN t_ns_ - pace[w].elapsed ELSE 0)
            /\ pace[w].now - pace[w].start >= t_ns_

\* C21: an ingest appends its byte at the tail of the buffer and then, when
\* the buffer has reached 9 bytes, makes exactly one evaluation and removes
\* exactly the head, and otherwise makes none; the head is never removed
\* without a decision, and the buffer always holds the bytes ingested less
\* one per decision.
C21_IngestStep ==
    /\ [](Len(data_buffer_) = Len(ingested) - Len(decisions))
    /\ [][ingested' # ingested =>
            LET byte == ingested'[Len(ingested')]
                appended == Append(data_buffer_, byte)
            IN  /\ ingested' = Append(ingested, byte)
                /\ IF Len(appended) >= 9
                   THEN /\ Len(decisions') = Len(decisions) + 1
                        /\ SubSeq(decisions', 1, Len(decisions)) = decisions
                        /\ data_buffer_' = Tail(appended)
                   ELSE /\ decisions' = decisions
                        /\ data_buffer_' = appended]_vars
    /\ [][decisions' = decisions =>
            IsPrefix(data_buffer_, data_buffer_')]_vars

\* the first byte of the sixth pair has been ingested: eleven bytes, three
\* decisions, eight bytes in the buffer
C21_Witness ==
    /\ filter_pc = "ingest_second"
    /\ Len(ingested) = 11
    /\ Len(decisions) = 3
    /\ Len(data_buffer_) = 8

\* C22: the buffer never holds more than 9 bytes, the append of an ingest
\* included, and it holds at most 8 once an ingest has completed (every
\* state of the consumer lies between two ingests: at a poll, between the
\* two bytes of a pair, after the loop), whatever the queue holds.
C22_BufferBound ==
    /\ [](Len(data_buffer_) <= 8)
    /\ [][ingested' # ingested =>
            /\ Len(Append(data_buffer_, ingested'[Len(ingested')])) <= 9
            /\ Len(data_buffer_') <= 8]_vars

\* the consumer is about to poll with a buffer of eight while two pairs
\* wait in the queue
C22_Witness ==
    /\ filter_pc = "loop"
    /\ Len(data_buffer_) = 8
    /\ Len(queue_) >= 2

\* C23: decisions come in ingestion order without gap or repeat: the k-th
\* decision (k = 0, 1, ...) judges the sample at index k + 4 of the ingested
\* stream, so no sample is judged twice, and neither the first 4 samples nor
\* the last 4 ingested are ever the subject of a decision.
C23_DecisionOrder ==
    /\ Len(decision_pos) = Len(decisions)
    /\ \A d \in 1..Len(decisions) :
          /\ decision_pos[d] = (d - 1) + 4
          /\ decisions[d].subject = ingested[(d - 1) + 4 + 1]
          /\ decision_pos[d] >= 4
          /\ decision_pos[d] <= Len(ingested) - 1 - 4
    /\ \A d, e \in 1..Len(decision_pos) :
          decision_pos[d] = decision_pos[e] => d = e

\* a run of twelve samples has ended with four decisions, on the samples at
\* indices 4 to 7
C23_Witness ==
    /\ filter_pc = "done"
    /\ Len(ingested) = 12
    /\ decision_pos = <<4, 5, 6, 7>>
    /\ \E d \in 1..3 : decisions[d].subject # decisions[d + 1].subject

\* what a cycle without a pair must leave as it was
Untouched ==
    UNCHANGED <<data_buffer_, decisions, ingested, queue_, popped,
                received_pair, residual, filter_running_>>

\* C24: a cycle of the consumer whose poll finds the queue empty changes
\* neither the buffer, nor the decisions, nor the queue; and the consumer
\* goes back to the head of its loop when it reads the flag as false, and
\* when it reads it as true but finds the queue non-empty again.
C24_IdleCycle ==
    /\ [][filter_pc = "try_pop" /\ filter_pc' # "try_pop" /\ queue_ = << >> =>
            Untouched /\ filter_pc' = "check_flag"]_vars
    /\ [][filter_pc = "check_flag" /\ filter_pc' # "check_flag" =>
            /\ Untouched
            /\ ~producer_is_finished => filter_pc' = "loop"]_vars
    /\ [][filter_pc = "empty_lock" /\ filter_pc' # "empty_lock" =>
            Untouched /\ filter_pc' = "empty"]_vars
    /\ [][filter_pc = "empty" /\ filter_pc' # "empty" =>
            /\ Untouched
            /\ queue_ # << >> => filter_pc' = "loop"]_vars

\* the consumer, having read the flag as true after an empty poll, tests a
\* queue into which the producer's last pair was pushed since the poll
C24_Witness ==
    /\ filter_pc = "empty"
    /\ producer_is_finished
    /\ queue_ # << >>
    /\ data_buffer_ # << >>

\* C25: the loop after the main loop never emits a decision: the buffer
\* holds at most 8 bytes when the main loop is left, the step that ends the
\* run adds no decision and removes nothing, and the residual is the buffer
\* as it stood at the exit, of length min(bytes ingested, 8).
C25_DrainEmitsNothing ==
    /\ [](filter_pc = "drain" => Len(data_buffer_) <= 8)
    /\ [][filter_pc = "drain" /\ filter_pc' # "drain" =>
            /\ filter_pc' = "done"
            /\ decisions' = decisions
            /\ data_buffer_' = data_buffer_
            /\ residual' = data_buffer_
            /\ Len(residual') =
                  (IF Len(ingested) < 8 THEN Len(ingested) ELSE 8)]_vars

\* a run of ten samples has ended: both decisions were made in the main
\* loop and the residual is the buffer of eight left at the exit
C25_Witness ==
    /\ filter_pc = "done"
    /\ Len(ingested) = 10
    /\ Len(decisions) = 2
    /\ residual = data_buffer_
    /\ Len(residual) = 8

\* the consumer is at a cycle boundary: not between the pop of a pair and
\* the ingest of its second byte
CycleBoundary == filter_pc \notin {"ingest_first", "ingest_second"}

\* C26: samples are ingested in pairs: at every cycle boundary two bytes
\* have been ingested per pair popped, the first 4 pairs have yielded no
\* decision and every later pair two, so that the number of decisions is
\* even and the buffer holds min(2 x pairs, 8) bytes; a pair yields its
\* first decision, if any, with its first byte.
C26_PairwiseDecisions ==
    LET pairs == Len(popped)
    IN  /\ CycleBoundary =>
              /\ Len(ingested) = 2 * pairs
              /\ Len(decisions) = (IF pairs <= 4 THEN 0 ELSE 2 * (pairs - 4))
              /\ Len(decisions) % 2 = 0
              /\ Len(data_buffer_) = (IF 2 * pairs < 8 THEN 2 * pairs ELSE 8)
        /\ filter_pc = "ingest_second" =>
              /\ Len(ingested) = 2 * pairs - 1
              /\ Len(decisions) =
                    (IF pairs <= 4 THEN 0 ELSE 2 * (pairs - 4) - 1)

\* the consumer is back at the head of its loop after its sixth pair: four
\* decisions, eight bytes in the buffer
C26_Witness ==
    /\ filter_pc = "loop"
    /\ Len(popped) = 6
    /\ Len(decisions) = 4
    /\ Len(data_buffer_) = 8

\* C27: with the random source the pipeline never stops on its own: the
\* producer's loop never exits, main stays at its join of the producer, the
\* finished flag is never written and stays false, the consumer never leaves
\* its main loop, and no push is refused for the length of the queue: the
\* queue holds every pair pushed and not yet popped, and each push makes it
\* one longer.
C27_RandomNeverStops ==
    /\ [](~use_csv_mode_ =>
            /\ gen_running_
            /\ gen_pc \in {"start", "loop", "push_lock", "push"}
            /\ main_pc = "join_gen"
            /\ ~Stopped
            /\ ~producer_is_finished
            /\ flag_writes = 0
            /\ filter_running_
            /\ filter_pc \in {"loop", "try_pop", "ingest_first",
                              "ingest_second", "check_flag"}
            /\ Len(queue_) = Len(pushed) - Len(popped))
    /\ [][~use_csv_mode_ /\ pushed' # pushed =>
            Len(queue_') = Len(queue_) + 1]_vars
    /\ [](~use_csv_mode_ /\ gen_pc = "push" => ENABLED GenPush)

\* the producer has run ahead of the consumer: every pair it was allowed to
\* generate is in the queue and none has been popped
C27_Witness ==
    /\ ~use_csv_mode_
    /\ Len(queue_) = MaxRandomPairs
    /\ popped = << >>
    /\ gen_pc = "loop"

====
